---- MODULE Spec2Model ----
(***************************************************************************)
(* Model of huffman.c: the flow of main() from the frequency table to the  *)
(* printed encodings.  The node store is a heap of records addressed by    *)
(* 1-based handles (NULL is 0); the node index a[] is a 0-based array of   *)
(* handles, as in the C source.                                            *)
(***************************************************************************)
EXTENDS Integers, Sequences, FiniteSets, TLC

\* ---- bounds of the model -------------------------------------------------
\* number of table slots modelled (the source has 128)
ASIZE == 6
\* largest count of one symbol in the enumerated tables
MaxFreq == 3
\* largest number of distinct symbols in the enumerated tables
MaxSymbols == 4

\* ---- program constants ---------------------------------------------------
\* variant: the marker of parent nodes is the last value of the symbol range
PNODE_InRange == ASIZE - 1

PNODE == -250
BITSPERBYTE == 8
NULL == 0
NUL == "NUL"

VARIABLES pc, ascii, len, a, heap, start, root, b, cnt, i, n, bits, out, bytes,
          freed, frontier, tres

vars == <<pc, ascii, len, a, heap, start, root, b, cnt, i, n, bits, out, bytes,
          freed, frontier, tres>>

\* ---- inputs --------------------------------------------------------------
Symbols == 0 .. (ASIZE - 1)

NonZero(t) == {s \in DOMAIN t : t[s] # 0}

\* the classic example table {A:5, B:9, C:12, D:13, E:16, F:45}
ClassicFreqs == <<5, 9, 12, 13, 16, 45>>

ClassicTable == [s \in Symbols |-> IF s < 6 THEN ClassicFreqs[s + 1] ELSE 0]

FreqTables ==
  {t \in [Symbols -> 0 .. MaxFreq] : Cardinality(NonZero(t)) <= MaxSymbols}
    \cup {ClassicTable}

EmptyArr == [j \in {} |-> NULL]

\* ---- tree-building functions ---------------------------------------------
calcNodeCnt(t) == Cardinality(NonZero(t))

\* variant: a single symbol is accepted
tooFewNodes_One(count) == count < 1

tooFewNodes(count) == count < 2

\* variant: the two child pointers are stored in each other's field
createNode_Swapped(c, freq, left, right) ==
  [freq |-> freq, c |-> c, left |-> right, right |-> left]

\* variant: the right pointer is never stored
createNode_LeftOnly(c, freq, left, right) ==
  [freq |-> freq, c |-> c, left |-> left, right |-> NULL]

createNode(c, freq, left, right) ==
  [freq |-> freq, c |-> c, left |-> left, right |-> right]

RECURSIVE createLeaves(_, _, _)
createLeaves(t, k, h) ==
  IF k = ASIZE THEN h
  ELSE IF t[k] # 0
       THEN createLeaves(t, k + 1, Append(h, createNode(k, t[k], NULL, NULL)))
       ELSE createLeaves(t, k + 1, h)

createNodeIndex(length) == [j \in 0 .. (length - 1) |-> j + 1]

nodeComp(h, n1, n2) == h[n1].freq - h[n2].freq

\* every arrangement of the handles in S that nodeComp accepts as sorted;
\* qsort leaves the order of equal elements unspecified
RECURSIVE SortedSeqs(_, _)
SortedSeqs(h, S) ==
  IF S = {} THEN {<<>>}
  ELSE UNION {{<<x>> \o s : s \in SortedSeqs(h, S \ {x})} :
               x \in {y \in S : \A z \in S : nodeComp(h, y, z) <= 0}}

qsortResults(h, arr) ==
  LET S == {arr[j] : j \in DOMAIN arr}
  IN  {[j \in DOMAIN arr |-> s[j + 1]] : s \in SortedSeqs(h, S)}

\* variant: without a match the lower bound itself is returned
RECURSIVE getInsertionPointLoop_ReturnLo(_, _, _, _, _)
getInsertionPointLoop_ReturnLo(key, arr, h, lo, end) ==
  IF lo <= end
  THEN LET mid == (lo + end) \div 2
       IN  IF key > h[arr[mid]].freq
           THEN getInsertionPointLoop_ReturnLo(key, arr, h, mid + 1, end)
           ELSE IF key < h[arr[mid]].freq
                THEN getInsertionPointLoop_ReturnLo(key, arr, h, lo, mid - 1)
                ELSE mid
  ELSE lo

\* variant: on an exact match the slot before the match is returned
RECURSIVE getInsertionPointLoop_MatchLeft(_, _, _, _, _)
getInsertionPointLoop_MatchLeft(key, arr, h, lo, end) ==
  IF lo <= end
  THEN LET mid == (lo + end) \div 2
       IN  IF key > h[arr[mid]].freq
           THEN getInsertionPointLoop_MatchLeft(key, arr, h, mid + 1, end)
           ELSE IF key < h[arr[mid]].freq
                THEN getInsertionPointLoop_MatchLeft(key, arr, h, lo, mid - 1)
                ELSE mid - 1
  ELSE lo - 1

RECURSIVE getInsertionPointLoop(_, _, _, _, _)
getInsertionPointLoop(key, arr, h, lo, end) ==
  IF lo <= end
  THEN LET mid == (lo + end) \div 2
       IN  IF key > h[arr[mid]].freq
           THEN getInsertionPointLoop(key, arr, h, mid + 1, end)
           ELSE IF key < h[arr[mid]].freq
                THEN getInsertionPointLoop(key, arr, h, lo, mid - 1)
                ELSE mid
  ELSE lo - 1

\* the indices mid at which the loop of getInsertionPoint reads a[mid]->freq;
\* the walk stops at a slot outside the array or holding NULL
RECURSIVE probedSlots(_, _, _, _, _)
probedSlots(key, arr, h, lo, end) ==
  IF lo <= end
  THEN LET mid == (lo + end) \div 2
       IN  IF mid \notin DOMAIN arr \/ arr[mid] = NULL THEN {mid}
           ELSE IF key > h[arr[mid]].freq
                THEN {mid} \cup probedSlots(key, arr, h, mid + 1, end)
                ELSE IF key < h[arr[mid]].freq
                     THEN {mid} \cup probedSlots(key, arr, h, lo, mid - 1)
                     ELSE {mid}
  ELSE {}

\* variant: the search range stops one slot short of the last entry
getInsertionPoint_ShortEnd(key, arr, h, length, from) ==
  getInsertionPointLoop(key, arr, h, from, length - 2)

getInsertionPoint(key, arr, h, length, from) ==
  getInsertionPointLoop(key, arr, h, from, length - 1)

\* variant: one element fewer is moved
memmove_OneLess(arr, count) ==
  [j \in DOMAIN arr |-> IF j < count - 1 THEN arr[j + 1] ELSE arr[j]]

\* memmove(a, a + 1, count * sizeof(node *))
memmove(arr, count) ==
  [j \in DOMAIN arr |-> IF j < count THEN arr[j + 1] ELSE arr[j]]

\* variant: the left child's freq is added twice
newfreq_LeftTwice(arr, h, lchild, rchild) ==
  h[arr[lchild]].freq + h[arr[lchild]].freq

newfreq(arr, h, lchild, rchild) == h[arr[lchild]].freq + h[arr[rchild]].freq

\* variant: the parent always takes the slot of the right child
mergeIndex_Front(arr, h, length, from, parent) ==
  [arr EXCEPT ![from] = NULL, ![from + 1] = parent]

\* variant: the parent is stored without moving the entries below it
mergeIndex_NoMove(arr, h, length, from, parent) ==
  LET insertpoint == getInsertionPoint(h[parent].freq, arr, h, length, from)
      cleared == [arr EXCEPT ![from] = NULL, ![from + 1] = NULL]
  IN  [cleared EXCEPT ![insertpoint] = parent]

\* variant: the slots of the two children are not set to NULL
mergeIndex_NoClear(arr, h, length, from, parent) ==
  LET insertpoint == getInsertionPoint(h[parent].freq, arr, h, length, from)
      moved == IF insertpoint > from + 1 THEN memmove(arr, insertpoint)
               ELSE arr
  IN  [moved EXCEPT ![insertpoint] = parent]

\* the array after one iteration of the populateTree loop; parent is the
\* handle of the node just created
mergeIndex(arr, h, length, from, parent) ==
  LET lchild == from
      rchild == from + 1
      insertpoint == getInsertionPoint(h[parent].freq, arr, h, length, from)
      cleared == [arr EXCEPT ![lchild] = NULL, ![rchild] = NULL]
      moved == IF insertpoint > from + 1 THEN memmove(cleared, insertpoint)
               ELSE cleared
  IN  [moved EXCEPT ![insertpoint] = parent]

\* ---- encoding calculation ------------------------------------------------
RECURSIVE treeHeight(_, _)
treeHeight(h, x) ==
  IF x = NULL THEN -1
  ELSE LET lh == treeHeight(h, h[x].left)
           rh == treeHeight(h, h[x].right)
       IN  IF lh > rh THEN lh + 1 ELSE rh + 1

createBuffer(size) == [k \in 0 .. size |-> NUL]

strlen(s) ==
  LET nuls == {k \in DOMAIN s : s[k] = NUL}
  IN  CHOOSE k \in nuls : \A j \in nuls : k <= j

RECURSIVE reverseLoop(_, _, _, _)
reverseLoop(s, k, mid, last) ==
  IF k < mid
  THEN reverseLoop([s EXCEPT ![k] = s[last - k], ![last - k] = s[k]],
                   k + 1, mid, last)
  ELSE s

\* variant: the string is left as findEncoding wrote it
reverseString_NoSwap(s) == s

reverseString(s) == reverseLoop(s, 0, strlen(s) \div 2, strlen(s) - 1)

\* variant: the static counter is never reset
RECURSIVE findEncoding_NoReset(_, _, _, _, _)
findEncoding_NoReset(h, rootArg, target, str, count) ==
  LET x == rootArg
      c0 == count
  IN  IF x = NULL THEN [n |-> NULL, str |-> str, cnt |-> c0]
      ELSE IF h[x].c = target THEN [n |-> x, str |-> str, cnt |-> c0]
      ELSE LET l == findEncoding_NoReset(h, h[x].left, target, str, c0)
           IN  IF l.n # NULL
               THEN [n |-> l.n, str |-> [l.str EXCEPT ![l.cnt] = "0"],
                     cnt |-> l.cnt + 1]
               ELSE LET r == findEncoding_NoReset(h, h[x].right, target,
                                                  l.str, l.cnt)
                    IN  IF r.n # NULL
                        THEN [n |-> r.n, str |-> [r.str EXCEPT ![r.cnt] = "1"],
                              cnt |-> r.cnt + 1]
                        ELSE [n |-> NULL, str |-> r.str, cnt |-> r.cnt]

\* variant: the right descent writes the same character as the left one
RECURSIVE findEncoding_SameBit(_, _, _, _, _)
findEncoding_SameBit(h, rootArg, target, str, count) ==
  LET x == rootArg
      c0 == IF x = rootArg THEN 0 ELSE count
  IN  IF x = NULL THEN [n |-> NULL, str |-> str, cnt |-> c0]
      ELSE IF h[x].c = target THEN [n |-> x, str |-> str, cnt |-> c0]
      ELSE LET l == findEncoding_SameBit(h, h[x].left, target, str, c0)
           IN  IF l.n # NULL
               THEN [n |-> l.n, str |-> [l.str EXCEPT ![l.cnt] = "0"],
                     cnt |-> l.cnt + 1]
               ELSE LET r == findEncoding_SameBit(h, h[x].right, target,
                                                  l.str, l.cnt)
                    IN  IF r.n # NULL
                        THEN [n |-> r.n, str |-> [r.str EXCEPT ![r.cnt] = "0"],
                              cnt |-> r.cnt + 1]
                        ELSE [n |-> NULL, str |-> r.str, cnt |-> r.cnt]

\* findEncoding returns the node found, the buffer and the static counter
RECURSIVE findEncoding(_, _, _, _, _)
findEncoding(h, rootArg, target, str, count) ==
  LET x == rootArg
      c0 == IF x = rootArg THEN 0 ELSE count
  IN  IF x = NULL THEN [n |-> NULL, str |-> str, cnt |-> c0]
      ELSE IF h[x].c = target THEN [n |-> x, str |-> str, cnt |-> c0]
      ELSE LET l == findEncoding(h, h[x].left, target, str, c0)
           IN  IF l.n # NULL
               THEN [n |-> l.n, str |-> [l.str EXCEPT ![l.cnt] = "0"],
                     cnt |-> l.cnt + 1]
               ELSE LET r == findEncoding(h, h[x].right, target, l.str, l.cnt)
                    IN  IF r.n # NULL
                        THEN [n |-> r.n, str |-> [r.str EXCEPT ![r.cnt] = "1"],
                              cnt |-> r.cnt + 1]
                        ELSE [n |-> NULL, str |-> r.str, cnt |-> r.cnt]

\* the characters of a buffer up to its terminator, as printed by %s
cstring(s) == [k \in 1 .. strlen(s) |-> s[k - 1]]

\* variant: the buffer is not cleared after a line is printed
memsetNul_Keep(s, count) == s

memsetNul(s, count) == [k \in DOMAIN s |-> IF k < count THEN NUL ELSE s[k]]

\* variant: the byte count is truncated
roundUpBytes_Truncate(nbits) == nbits \div BITSPERBYTE

roundUpBytes(nbits) ==
  nbits \div BITSPERBYTE + (IF nbits % BITSPERBYTE # 0 THEN 1 ELSE 0)

\* ---- teardown --------------------------------------------------------------
\* variant: the left subtree is released twice, the right one never
RECURSIVE freeNodes_LeftTwice(_, _, _)
freeNodes_LeftTwice(h, x, log) ==
  IF x = NULL THEN log
  ELSE Append(freeNodes_LeftTwice(h, h[x].left,
                freeNodes_LeftTwice(h, h[x].left, log)), x)

\* freeNodes appends to the log of free() calls the handles it releases
RECURSIVE freeNodes(_, _, _)
freeNodes(h, x, log) ==
  IF x = NULL THEN log
  ELSE Append(freeNodes(h, h[x].right, freeNodes(h, h[x].left, log)), x)

\* ---- the state machine ---------------------------------------------------
Init ==
  /\ ascii \in FreqTables
  /\ pc = "calcNodeCnt"
  /\ len = 0
  /\ a = EmptyArr
  /\ heap = <<>>
  /\ start = 0
  /\ root = NULL
  /\ b = EmptyArr
  /\ cnt = 0
  /\ i = 0
  /\ n = NULL
  /\ bits = 0
  /\ out = <<>>
  /\ bytes = -1
  /\ freed = <<>>
  /\ frontier = EmptyArr
  /\ tres = <<>>

CalcNodeCntFail ==
  /\ pc = "calcNodeCnt"
  /\ tooFewNodes(calcNodeCnt(ascii))
  /\ pc' = "exit_failure"
  /\ UNCHANGED <<ascii, len, a, heap, start, root, b, cnt, i, n, bits, out,
                 bytes>>
  /\ UNCHANGED <<freed, frontier, tres>>

CalcNodeCnt ==
  /\ pc = "calcNodeCnt"
  /\ ~tooFewNodes(calcNodeCnt(ascii))
  /\ len' = calcNodeCnt(ascii)
  /\ pc' = "createNodeIndex"
  /\ UNCHANGED <<ascii, a, heap, start, root, b, cnt, i, n, bits, out, bytes>>
  /\ UNCHANGED <<freed, frontier, tres>>

CreateNodeIndex ==
  /\ pc = "createNodeIndex"
  /\ heap' = createLeaves(ascii, 0, heap)
  /\ a' = createNodeIndex(len)
  /\ pc' = "qsort"
  /\ UNCHANGED <<ascii, len, start, root, b, cnt, i, n, bits, out, bytes>>
  /\ UNCHANGED <<freed, frontier, tres>>

Qsort ==
  /\ pc = "qsort"
  /\ a' \in qsortResults(heap, a)
  /\ start' = 0
  /\ pc' = "populateTree"
  /\ UNCHANGED <<ascii, len, heap, root, b, cnt, i, n, bits, out, bytes>>
  /\ UNCHANGED <<freed, frontier, tres>>

MergeStep ==
  /\ pc = "populateTree"
  /\ start < len - 1
  /\ LET parent == Len(heap) + 1
     IN  /\ heap' = Append(heap, createNode(PNODE,
                       newfreq(a, heap, start, start + 1),
                       a[start], a[start + 1]))
         /\ a' = mergeIndex(a, heap', len, start, parent)
  /\ start' = start + 1
  /\ UNCHANGED <<pc, ascii, len, root, b, cnt, i, n, bits, out, bytes>>
  /\ UNCHANGED <<freed, frontier, tres>>

PopulateReturn ==
  /\ pc = "populateTree"
  /\ ~(start < len - 1)
  /\ root' = a[len - 1]
  /\ pc' = "printHuffman"
  /\ UNCHANGED <<ascii, len, a, heap, start, b, cnt, i, n, bits, out, bytes>>
  /\ UNCHANGED <<freed, frontier, tres>>

PrintInit ==
  /\ pc = "printHuffman"
  /\ b' = createBuffer(treeHeight(heap, root))
  /\ bits' = 0
  /\ i' = 0
  /\ pc' = "printLoop"
  /\ UNCHANGED <<ascii, len, a, heap, start, root, cnt, n, out, bytes>>
  /\ UNCHANGED <<freed, frontier, tres>>

PrintSkip ==
  /\ pc = "printLoop"
  /\ i < ASIZE
  /\ ~(ascii[i] # 0)
  /\ i' = i + 1
  /\ UNCHANGED <<pc, ascii, len, a, heap, start, root, b, cnt, n, bits, out,
                 bytes>>
  /\ UNCHANGED <<freed, frontier, tres>>

FindEncodingStep ==
  /\ pc = "printLoop"
  /\ i < ASIZE
  /\ ascii[i] # 0
  /\ LET r == findEncoding(heap, root, i, b, cnt)
     IN  /\ n' = r.n
         /\ b' = r.str
         /\ cnt' = r.cnt
  /\ pc' = "reverseString"
  /\ UNCHANGED <<ascii, len, a, heap, start, root, i, bits, out, bytes>>
  /\ UNCHANGED <<freed, frontier, tres>>

ReverseStep ==
  /\ pc = "reverseString"
  /\ b' = reverseString(b)
  /\ pc' = "fprintf"
  /\ UNCHANGED <<ascii, len, a, heap, start, root, cnt, i, n, bits, out,
                 bytes>>
  /\ UNCHANGED <<freed, frontier, tres>>

PrintLine ==
  /\ pc = "fprintf"
  /\ out' = Append(out, [c |-> heap[n].c, str |-> cstring(b),
                         len |-> strlen(b), freq |-> heap[n].freq])
  /\ bits' = bits + strlen(b) * heap[n].freq
  /\ b' = memsetNul(b, strlen(b))
  /\ i' = i + 1
  /\ pc' = "printLoop"
  /\ UNCHANGED <<ascii, len, a, heap, start, root, cnt, n, bytes>>
  /\ UNCHANGED <<freed, frontier, tres>>

PrintBytes ==
  /\ pc = "printLoop"
  /\ ~(i < ASIZE)
  /\ bytes' = roundUpBytes(bits)
  /\ pc' = "freeNodes"
  /\ UNCHANGED <<ascii, len, a, heap, start, root, b, cnt, i, n, bits, out>>
  /\ UNCHANGED <<freed, frontier, tres>>

FreeNodes ==
  /\ pc = "freeNodes"
  /\ a' = EmptyArr
  /\ freed' = freeNodes(heap, root, freed)
  /\ pc' = "done"
  /\ UNCHANGED <<ascii, len, heap, start, root, b, cnt, i, n, bits, out,
                 bytes, frontier, tres>>

Next ==
  \/ CalcNodeCntFail
  \/ CalcNodeCnt
  \/ CreateNodeIndex
  \/ Qsort
  \/ MergeStep
  \/ PopulateReturn
  \/ PrintInit
  \/ PrintSkip
  \/ FindEncodingStep
  \/ ReverseStep
  \/ PrintLine
  \/ PrintBytes
  \/ FreeNodes

Spec == Init /\ [][Next]_vars

TypeOK ==
  /\ pc \in {"calcNodeCnt", "exit_failure", "createNodeIndex", "qsort",
             "populateTree", "printHuffman", "printLoop", "reverseString",
             "fprintf", "freeNodes", "done"}
  /\ len \in 0 .. ASIZE
  /\ start \in 0 .. ASIZE

\* ---- hufftest.c: the three ways of keeping the index sorted -----------------
\* qsort(index->a + from, count, sizeof(node *), nodeComp)
qsortRange(h, arr, from, count) ==
  LET S == {arr[j] : j \in from .. (from + count - 1)}
  IN  {[j \in DOMAIN arr |->
          IF j >= from /\ j < from + count THEN s[j - from + 1] ELSE arr[j]] :
        s \in SortedSeqs(h, S)}

\* the while loop of insertionSort; j is not decremented in its body
RECURSIVE insertionSortWhile(_, _, _)
insertionSortWhile(arr, h, j) ==
  IF j > 0 /\ h[arr[j - 1]].freq > h[arr[j]].freq
  THEN insertionSortWhile([arr EXCEPT ![j - 1] = arr[j], ![j] = arr[j - 1]],
                          h, j)
  ELSE arr

RECURSIVE insertionSortFor(_, _, _, _)
insertionSortFor(arr, h, k, length) ==
  IF k < length
  THEN insertionSortFor(insertionSortWhile(arr, h, k), h, k + 1, length)
  ELSE arr

\* variant: the for loop starts one slot too far
insertionSort_SkipFirst(arr, h, length, from) ==
  insertionSortFor(arr, h, from + 2, length)

insertionSort(arr, h, length, from) ==
  insertionSortFor(arr, h, from + 1, length)

\* the index after the two children are cleared and the parent is stored
\* in the slot of the right child
parentAtFront(arr, from, parent) ==
  [arr EXCEPT ![from] = NULL, ![from + 1] = parent]

\* what a finished populateTree... leaves behind: the root it returns, the
\* node store it built and the value of its loop counter
testResult(name) ==
  [test |-> name, root |-> a[len - 1], heap |-> heap, merges |-> start]

TestArrays == {t \in FreqTables : Cardinality(NonZero(t)) >= 1}

\* the index every test starts from: the leaves in an order qsort may give
InitTest ==
  /\ ascii \in TestArrays
  /\ frontier \in qsortResults(createLeaves(ascii, 0, <<>>),
                                createNodeIndex(calcNodeCnt(ascii)))
  /\ pc = "testQsort"
  /\ len = 0
  /\ a = EmptyArr
  /\ heap = <<>>
  /\ start = 0
  /\ root = NULL
  /\ b = EmptyArr
  /\ cnt = 0
  /\ i = 0
  /\ n = NULL
  /\ bits = 0
  /\ out = <<>>
  /\ bytes = -1
  /\ freed = <<>>
  /\ tres = <<>>

unusedByTests == <<ascii, b, cnt, i, n, bits, out, bytes, freed, frontier>>

\* calcNodeCnt, createNodeIndex and qsort of a test function
testSetup(at, to) ==
  /\ pc = at
  /\ len' = calcNodeCnt(ascii)
  /\ heap' = createLeaves(ascii, 0, <<>>)
  /\ a' = frontier
  /\ start' = 0
  /\ root' = NULL
  /\ pc' = to
  /\ UNCHANGED <<unusedByTests, tres>>

\* the return of populateTree..., free(index.a) and freeNodes(root)
testFinish(at, to, name) ==
  /\ pc = at
  /\ ~(start < len - 1)
  /\ root' = a[len - 1]
  /\ tres' = Append(tres, testResult(name))
  /\ a' = EmptyArr
  /\ pc' = to
  /\ UNCHANGED <<unusedByTests, len, heap, start>>

TestQsortBegin == testSetup("testQsort", "populateTreeQSORT")

MergeQSORT ==
  /\ pc = "populateTreeQSORT"
  /\ start < len - 1
  /\ heap' = Append(heap, createNode(PNODE, newfreq(a, heap, start, start + 1),
                                     a[start], a[start + 1]))
  /\ a' \in qsortRange(heap', parentAtFront(a, start, Len(heap) + 1),
                        start + 1, len - (start + 1))
  /\ start' = start + 1
  /\ UNCHANGED <<unusedByTests, pc, len, root, tres>>

TestQsortEnd == testFinish("populateTreeQSORT", "testBinary", "QSORT")

TestBinaryBegin == testSetup("testBinary", "populateTreeBINARY")

MergeBINARY ==
  /\ pc = "populateTreeBINARY"
  /\ start < len - 1
  /\ heap' = Append(heap, createNode(PNODE, newfreq(a, heap, start, start + 1),
                                     a[start], a[start + 1]))
  /\ a' = mergeIndex(a, heap', len, start, Len(heap) + 1)
  /\ start' = start + 1
  /\ UNCHANGED <<unusedByTests, pc, len, root, tres>>

TestBinaryEnd == testFinish("populateTreeBINARY", "testInsertion", "BINARY")

TestInsertionBegin == testSetup("testInsertion", "populateTreeINSERT")

MergeINSERT ==
  /\ pc = "populateTreeINSERT"
  /\ start < len - 1
  /\ heap' = Append(heap, createNode(PNODE, newfreq(a, heap, start, start + 1),
                                     a[start], a[start + 1]))
  /\ a' = insertionSort(parentAtFront(a, start, Len(heap) + 1), heap', len,
                        start + 1)
  /\ start' = start + 1
  /\ UNCHANGED <<unusedByTests, pc, len, root, tres>>

TestInsertionEnd == testFinish("populateTreeINSERT", "testsDone", "INSERT")

NextTest ==
  \/ TestQsortBegin
  \/ MergeQSORT
  \/ TestQsortEnd
  \/ TestBinaryBegin
  \/ MergeBINARY
  \/ TestBinaryEnd
  \/ TestInsertionBegin
  \/ MergeINSERT
  \/ TestInsertionEnd

SpecTest == InitTest /\ [][NextTest]_vars

\* ---- measures of the state used by the properties --------------------------
Live(arr) == {j \in DOMAIN arr : arr[j] # NULL}

RECURSIVE SumOver(_, _)
SumOver(f, S) ==
  IF S = {} THEN 0
  ELSE LET x == CHOOSE y \in S : TRUE IN f[x] + SumOver(f, S \ {x})

LiveFreqs == [j \in Live(a) |-> heap[a[j]].freq]

TotalFreq == SumOver(ascii, DOMAIN ascii)

Internal == {x \in 1 .. Len(heap) : heap[x].c = PNODE}

Leaves == {x \in 1 .. Len(heap) : heap[x].c # PNODE}

Built == pc \in {"printHuffman", "printLoop", "reverseString", "fprintf",
                 "freeNodes"}

\* C1: at every iteration boundary of the populateTree loop the live
\* sub-range a[start..len-1] holds no NULL and is sorted ascending by freq.
C1_SortedAtBoundary ==
  pc = "populateTree" =>
    /\ \A j \in start .. (len - 1) : a[j] # NULL
    /\ \A j \in start .. (len - 2) : heap[a[j]].freq <= heap[a[j + 1]].freq

\* a boundary after a merge whose parent was shifted into the middle of the
\* live range, between two leaves
C1_Witness ==
  /\ pc = "populateTree"
  /\ start >= 1
  /\ \E j \in (start + 1) .. (len - 2) :
       /\ heap[a[j]].c = PNODE
       /\ heap[a[j - 1]].c # PNODE
       /\ heap[a[j + 1]].c # PNODE

\* C2: the loop performs exactly len - 1 merge steps, one internal node per
\* step, and leaves exactly one live entry, a[len-1], which is the root.
\* The loop counter equals the number of merges done, never passes len - 1,
\* and at every boundary the loop can either merge again or return.
C2_MergeCount ==
  /\ pc = "populateTree" =>
       /\ start <= len - 1
       /\ Cardinality(Internal) = start
       /\ Cardinality(Live(a)) = len - start
       /\ ENABLED (MergeStep \/ PopulateReturn)
  /\ Built =>
       /\ start = len - 1
       /\ Cardinality(Internal) = len - 1
       /\ Len(heap) = 2 * len - 1
       /\ Live(a) = {len - 1}
       /\ root = a[len - 1]

C2_Witness ==
  /\ pc = "printHuffman"
  /\ len >= 4
  /\ start = 3

\* C3: after every merge step the frequencies of the live entries add up to
\* the total of the frequency table, and so does the root's freq.
C3_Conservation ==
  /\ pc = "populateTree" => SumOver(LiveFreqs, Live(a)) = TotalFreq
  /\ Built => heap[root].freq = TotalFreq

\* mid-loop: two merges done, at least two entries still to merge, and the
\* live entries differ in frequency
C3_Witness ==
  /\ pc = "populateTree"
  /\ start >= 2
  /\ start < len - 1
  /\ heap[a[start]].freq # heap[a[len - 1]].freq

\* ---- the tree read bottom-up, independently of findEncoding ----------------
ParentOf(x) ==
  CHOOSE p \in 1 .. Len(heap) : heap[p].left = x \/ heap[p].right = x

\* the root-to-x path: "0" for a left descent, "1" for a right descent
RECURSIVE PathTo(_)
PathTo(x) ==
  IF x = root THEN <<>>
  ELSE Append(PathTo(ParentOf(x)),
              IF heap[ParentOf(x)].left = x THEN "0" ELSE "1")

LeafOf(s) == CHOOSE x \in Leaves : heap[x].c = s

Depth(x) == Len(PathTo(x))

IsPrefix(s, t) == Len(s) <= Len(t) /\ SubSeq(t, 1, Len(s)) = s

\* C4: no printed encoding (findEncoding then reverseString) is a prefix of
\* the encoding printed for another symbol, and every symbol of the table
\* gets a line.
C4_PrefixFree ==
  /\ \A j, k \in 1 .. Len(out) :
       j # k => /\ out[j].c # out[k].c
                /\ ~IsPrefix(out[j].str, out[k].str)
  /\ pc = "freeNodes" => {out[j].c : j \in 1 .. Len(out)} = NonZero(ascii)

\* all lines printed, with encodings of different lengths among them
C4_Witness ==
  /\ pc = "freeNodes"
  /\ Len(out) >= 4
  /\ \E j, k \in 1 .. Len(out) : out[j].len + 2 <= out[k].len

\* C5: findEncoding leaves exactly d characters at b[0..d-1], d the depth of
\* the symbol's leaf, in leaf-to-root order; after reverseString the buffer
\* reads as the root-to-leaf path.
C5_PathInBuffer ==
  /\ pc = "reverseString" =>
       LET path == PathTo(LeafOf(i))
           d == Len(path)
       IN  /\ cnt = d
           /\ \A k \in DOMAIN b :
                b[k] = IF k < d THEN path[d - k] ELSE NUL
  /\ pc = "fprintf" =>
       LET path == PathTo(LeafOf(i))
           d == Len(path)
       IN  \A k \in DOMAIN b :
             b[k] = IF k < d THEN path[k + 1] ELSE NUL

\* a leaf three or more edges down whose path is not a palindrome, after
\* another symbol has already been looked up
C5_Witness ==
  /\ pc = "fprintf"
  /\ Len(out) >= 1
  /\ Depth(LeafOf(i)) >= 3
  /\ \E k \in 1 .. Depth(LeafOf(i)) :
       PathTo(LeafOf(i))[k] # PathTo(LeafOf(i))[Depth(LeafOf(i)) + 1 - k]

\* C6: for the table {5, 9, 12, 13, 16, 45} the printed code lengths l
\* satisfy Kraft's equality, stated over integers as
\* sum of 2^(H - l) = 2^H with H the height of the tree.
C6_KraftClassic ==
  (ascii = ClassicTable /\ pc = "freeNodes") =>
    LET H == treeHeight(heap, root)
        w == [j \in 1 .. Len(out) |-> 2 ^ (H - out[j].len)]
    IN  /\ Len(out) = 6
        /\ \A j \in 1 .. Len(out) : out[j].len <= H
        /\ SumOver(w, 1 .. Len(out)) = 2 ^ H

C6_Witness ==
  /\ ascii = ClassicTable
  /\ pc = "freeNodes"
  /\ Len(out) = 6

\* C7: the bit total is the sum over the symbols of the table of encoding
\* length times symbol frequency, and the byte count printed is that total
\* divided by 8 and rounded up.
C7_EncodedSize ==
  pc = "freeNodes" =>
    LET w == [j \in 1 .. Len(out) |-> out[j].len * ascii[out[j].c]]
    IN  /\ {out[j].c : j \in 1 .. Len(out)} = NonZero(ascii)
        /\ Len(out) = Cardinality(NonZero(ascii))
        /\ bits = SumOver(w, 1 .. Len(out))
        /\ bytes = bits \div 8 + (IF bits % 8 # 0 THEN 1 ELSE 0)
        /\ 8 * bytes >= bits
        /\ 8 * (bytes - 1) < bits

\* a total that is not a whole number of bytes
C7_Witness ==
  /\ pc = "freeNodes"
  /\ bits > 8
  /\ bits % 8 # 0

\* C8: with exactly two symbols the single merge makes a[0] the left and
\* a[1] the right child of a root of height 1, and the two lines printed
\* carry the encodings "0" (left child) and "1" (right child).
C8_TwoSymbols ==
  [][/\ (pc = "populateTree" /\ len = 2 /\ start = 0) =>
          /\ heap[a[0]].freq <= heap[a[1]].freq
          /\ heap'[a'[1]].left = a[0]
          /\ heap'[a'[1]].right = a[1]
          /\ treeHeight(heap', a'[1]) = 1
     /\ (len' = 2 /\ root' # NULL) =>
          /\ pc' # "done" => root' = a'[1]
          /\ treeHeight(heap', root') = 1
          /\ \A j \in 1 .. Len(out') :
               /\ out'[j].c = heap'[heap'[root'].left].c
                    => out'[j].str = <<"0">>
               /\ out'[j].c = heap'[heap'[root'].right].c
                    => out'[j].str = <<"1">>
               /\ out'[j].len = 1]_vars

C8_Witness ==
  /\ pc = "freeNodes"
  /\ len = 2
  /\ Len(out) = 2
  /\ heap[heap[root].left].freq < heap[heap[root].right].freq

\* C9: a table with fewer than two non-zero entries stops in the error
\* state of calcNodeCnt; no node and no index is ever allocated.
C9_TooFewIsFatal ==
  /\ Cardinality(NonZero(ascii)) < 2 =>
       /\ pc \in {"calcNodeCnt", "exit_failure"}
       /\ heap = <<>>
       /\ a = EmptyArr
       /\ len = 0
       /\ root = NULL
  /\ pc = "exit_failure" =>
       /\ Cardinality(NonZero(ascii)) < 2
       /\ ~ENABLED Next

C9_Witness ==
  /\ pc = "exit_failure"
  /\ Cardinality(NonZero(ascii)) = 1

\* C10: for every symbol of the table findEncoding returns a node, never
\* NULL, and that node is the childless leaf carrying the symbol.
C10_EncodingFound ==
  pc \in {"reverseString", "fprintf"} =>
    /\ ascii[i] # 0
    /\ n # NULL
    /\ heap[n].c = i
    /\ heap[n].c # PNODE
    /\ heap[n].left = NULL
    /\ heap[n].right = NULL
    /\ heap[n].freq = ascii[i]

\* the symbol found sits in the right subtree of the root, below an
\* internal node
C10_Witness ==
  /\ pc = "reverseString"
  /\ n # NULL
  /\ heap[root].right # n
  /\ cnt >= 2
  /\ b[cnt - 1] = "1"

\* C11: every node in the store has no child (a leaf made by createNodeIndex,
\* carrying a symbol) or two non-NULL, distinct children (a PNODE node made
\* by a merge step); a node with exactly one child never exists.
C11_ZeroOrTwoChildren ==
  \A x \in 1 .. Len(heap) :
    \/ /\ heap[x].left = NULL
       /\ heap[x].right = NULL
       /\ heap[x].c \in Symbols
    \/ /\ heap[x].left # NULL
       /\ heap[x].right # NULL
       /\ heap[x].left # heap[x].right
       /\ heap[x].c = PNODE

\* a finished tree in which some internal node has an internal child
C11_Witness ==
  /\ Built
  /\ \E x \in Internal : heap[x].left \in Internal \/ heap[x].right \in Internal

\* number of root-to-x paths in the structure hanging from r
RECURSIVE PathCount(_, _)
PathCount(r, x) ==
  IF r = NULL THEN 0
  ELSE IF r = x THEN 1
  ELSE PathCount(heap[r].left, x) + PathCount(heap[r].right, x)

PositionsOf(log, x) == {k \in 1 .. Len(log) : log[k] = x}

\* C12: the structure returned by populateTree is a tree: each of the
\* 2*len - 1 nodes is reached from the root by exactly one path.  freeNodes
\* releases every node exactly once, both children before their parent.
C12_Teardown ==
  /\ (Built \/ pc = "done") =>
       /\ Len(heap) = 2 * len - 1
       /\ \A x \in 1 .. Len(heap) : PathCount(root, x) = 1
  /\ pc # "done" => freed = <<>>
  /\ pc = "done" =>
       /\ Len(freed) = Len(heap)
       /\ \A x \in 1 .. Len(heap) : Cardinality(PositionsOf(freed, x)) = 1
       /\ \A k \in 1 .. Len(freed) :
            heap[freed[k]].left # NULL =>
              \E l, r \in 1 .. (k - 1) :
                /\ freed[l] = heap[freed[k]].left
                /\ freed[r] = heap[freed[k]].right

\* a tree of at least four leaves has been released
C12_Witness ==
  /\ pc = "done"
  /\ len >= 4
  /\ Len(freed) >= 7

\* C13: on the finished tree a lookup of symbol s, a lookup of any symbol t
\* and a second lookup of s, each into a cleared buffer and each inheriting
\* the static counter left by the call before, give the same node and the
\* same buffer for s both times; and the lookup made by printHuffman for
\* symbol i, after the lookups of all smaller symbols, equals a lookup that
\* starts from a counter of 0.
C13_LookupIdempotent ==
  /\ Built =>
       LET clear == createBuffer(treeHeight(heap, root))
       IN  \A s, t \in NonZero(ascii) :
             LET first == findEncoding(heap, root, s, clear, cnt)
                 between == findEncoding(heap, root, t, clear, first.cnt)
                 second == findEncoding(heap, root, s, clear, between.cnt)
             IN  /\ first.n # NULL
                 /\ second.n = first.n
                 /\ second.str = first.str
                 /\ second.cnt = first.cnt
  /\ pc = "reverseString" =>
       LET fresh == findEncoding(heap, root, i,
                                 createBuffer(treeHeight(heap, root)), 0)
       IN  /\ n = fresh.n
           /\ b = fresh.str
           /\ cnt = fresh.cnt

\* a lookup made after a longer encoding was found by the call before
C13_Witness ==
  /\ pc = "reverseString"
  /\ Len(out) >= 1
  /\ cnt >= 1
  /\ out[Len(out)].len > cnt

\* ---- the call of getInsertionPoint made by the next merge step -------------
AtMerge == pc = "populateTree" /\ start < len - 1

MergeKey == newfreq(a, heap, start, start + 1)

InsertPoint == getInsertionPoint(MergeKey, a, heap, len, start)

\* indices of the searched range whose freq equals, or is below, the key
Matches == {j \in start .. (len - 1) : heap[a[j]].freq = MergeKey}

Smaller == {j \in start .. (len - 1) : heap[a[j]].freq < MergeKey}

MaxOf(S) == CHOOSE x \in S : \A y \in S : y <= x

\* C15 as stated: when entries of the searched range have freq equal to the
\* key, getInsertionPoint returns the index of the last of them.
C15_ReturnsLastMatch ==
  (AtMerge /\ Matches # {}) => InsertPoint = MaxOf(Matches)

\* C15 amended: when entries of the searched range have freq equal to the
\* key, getInsertionPoint returns the index of one of them (the one the
\* bisection probes first), which lies above both children; every entry
\* between it and the last match has the same freq.
C15_ReturnsSomeMatch ==
  (AtMerge /\ Matches # {}) =>
    /\ InsertPoint \in Matches
    /\ InsertPoint >= start + 2
    /\ \A j \in InsertPoint .. MaxOf(Matches) : j \in Matches

\* after a merge the new parent sits between two entries of its own freq:
\* the match returned was not the last one
C15_Witness ==
  /\ pc = "populateTree"
  /\ start >= 1
  /\ \E j \in (start + 1) .. (len - 2) :
       /\ a[j] = Len(heap)
       /\ heap[a[j - 1]].freq = heap[a[j]].freq
       /\ heap[a[j + 1]].freq = heap[a[j]].freq

\* C16: when no entry of the searched range has freq equal to the key,
\* getInsertionPoint returns the index of the last entry whose freq is
\* below the key (the lower bound minus one); after the merge step the
\* parent is at that index, every live entry below it is smaller and every
\* entry above it is larger and unmoved.
C16_NoMatchLowerBound ==
  [][(AtMerge /\ Matches = {}) =>
       LET ip == InsertPoint
           key == MergeKey
       IN  /\ Smaller # {}
           /\ ip = MaxOf(Smaller)
           /\ Smaller = start .. ip
           /\ a'[ip] = Len(heap')
           /\ heap'[a'[ip]].freq = key
           /\ \A j \in (start + 1) .. (ip - 1) :
                /\ a'[j] # NULL
                /\ a'[j] = a[j + 1]
                /\ heap'[a'[j]].freq < key
           /\ \A j \in (ip + 1) .. (len - 1) :
                /\ a'[j] = a[j]
                /\ heap'[a'[j]].freq > key]_vars

\* after a merge the new parent sits strictly between a smaller entry that
\* was shifted below it and a larger entry above it
C16_Witness ==
  /\ pc = "populateTree"
  /\ start >= 1
  /\ \E j \in (start + 1) .. (len - 2) :
       /\ a[j] = Len(heap)
       /\ heap[a[j - 1]].freq < heap[a[j]].freq
       /\ heap[a[j + 1]].freq > heap[a[j]].freq

\* C17: at every merge step the entries taken as children, a[start] and
\* a[start+1], have the two lowest frequencies of all live entries, with
\* left.freq <= right.freq, and every parent created carries the sum of the
\* frequencies of its two children.
C17_TwoLowestMerged ==
  /\ AtMerge =>
       /\ a[start] # NULL
       /\ a[start + 1] # NULL
       /\ heap[a[start]].freq <= heap[a[start + 1]].freq
       /\ \A j \in Live(a) \ {start, start + 1} :
            heap[a[start + 1]].freq <= heap[a[j]].freq
  /\ \A x \in Internal :
       /\ heap[x].freq = heap[heap[x].left].freq + heap[heap[x].right].freq
       /\ heap[heap[x].left].freq <= heap[heap[x].right].freq

\* a merge is about to take a parent made earlier as one child and a leaf
\* as the other, with further entries waiting
C17_Witness ==
  /\ AtMerge
  /\ start >= 1
  /\ start + 2 <= len - 1
  /\ heap[a[start]].c = PNODE
  /\ heap[a[start + 1]].c # PNODE
  /\ heap[a[start + 1]].freq < heap[a[start + 2]].freq

\* C18: after the merge step with loop counter start = k the slots a[0..k]
\* are NULL, the slots a[k+1..len-1] are non-NULL and pairwise different,
\* the parent is at the insertion point, every entry above the insertion
\* point is unchanged, and the surviving entries below it are the old
\* entries a[k+2..insertpoint], in the same order, each one slot to the left.
C18_FrontierLayout ==
  [][AtMerge =>
       LET k == start
           ip == InsertPoint
       IN  /\ \A j \in 0 .. k : a'[j] = NULL
           /\ \A j \in (k + 1) .. (len - 1) : a'[j] # NULL
           /\ \A j, l \in (k + 1) .. (len - 1) : j # l => a'[j] # a'[l]
           /\ a'[ip] = Len(heap')
           /\ \A j \in (ip + 1) .. (len - 1) : a'[j] = a[j]
           /\ \A j \in (k + 1) .. (ip - 1) : a'[j] = a[j + 1]
           /\ DOMAIN a' = DOMAIN a]_vars

\* after a merge the parent sits above a shifted entry and below an
\* unmoved one, with more than one slot vacated
C18_Witness ==
  /\ pc = "populateTree"
  /\ start >= 2
  /\ \E j \in (start + 1) .. (len - 2) : a[j] = Len(heap)

\* C19: at every merge step the insertion point lies in start+1 .. len-1,
\* and every slot the step reads or writes (a[lchild], a[rchild], each a[mid]
\* of the search, the memmove source a[1..insertpoint], a[insertpoint]) is
\* inside the array; the slots it dereferences are not NULL.
C19_InsertPointInBounds ==
  AtMerge =>
    LET ip == InsertPoint
        mids == probedSlots(MergeKey, a, heap, start, len - 1)
    IN  /\ DOMAIN a = 0 .. (len - 1)
        /\ start + 1 <= ip
        /\ ip <= len - 1
        /\ a[start] # NULL
        /\ a[start + 1] # NULL
        /\ mids # {}
        /\ \A m \in mids : m \in start .. (len - 1) /\ a[m] # NULL
        /\ ip > start + 1 => \A j \in 1 .. ip : j \in DOMAIN a

\* a later merge whose search probes several slots and ends on the last one
C19_Witness ==
  /\ AtMerge
  /\ start >= 1
  /\ InsertPoint = len - 1
  /\ Cardinality(probedSlots(MergeKey, a, heap, start, len - 1)) >= 2

\* sum over the leaves below x of depth times freq, x being at depth d
RECURSIVE weightedPathLength(_, _, _)
weightedPathLength(h, x, d) ==
  IF x = NULL THEN 0
  ELSE IF h[x].left = NULL /\ h[x].right = NULL THEN d * h[x].freq
  ELSE weightedPathLength(h, h[x].left, d + 1)
         + weightedPathLength(h, h[x].right, d + 1)

InTestLoop ==
  pc \in {"populateTreeQSORT", "populateTreeBINARY", "populateTreeINSERT"}

\* C20: started from the same sorted index, populateTreeQSORT,
\* populateTreeBINARY and populateTreeINSERT each keep the live range
\* a[start..len-1] free of NULL and sorted after every merge, stop after
\* len - 1 merges, and return roots of the same freq (the total of the
\* table) over trees of the same weighted path length.
C20_StrategiesAgree ==
  /\ InTestLoop =>
       /\ start <= len - 1
       /\ Cardinality(Internal) = start
       /\ \A j \in 0 .. (start - 1) : a[j] = NULL
       /\ \A j \in start .. (len - 1) : a[j] # NULL
       /\ \A j \in start .. (len - 2) : heap[a[j]].freq <= heap[a[j + 1]].freq
  /\ \A k \in 1 .. Len(tres) :
       /\ tres[k].merges = len - 1
       /\ Len(tres[k].heap) = 2 * len - 1
       /\ tres[k].heap[tres[k].root].freq = TotalFreq
       /\ weightedPathLength(tres[k].heap, tres[k].root, 0)
            = weightedPathLength(tres[1].heap, tres[1].root, 0)
  /\ pc = "testsDone" =>
       /\ Len(tres) = 3
       /\ {tres[k].test : k \in 1 .. 3} = {"QSORT", "BINARY", "INSERT"}

\* all three tests done, and two of the trees differ in height
C20_Witness ==
  /\ pc = "testsDone"
  /\ Len(tres) = 3
  /\ len >= 4
  /\ \E j, k \in 1 .. 3 :
       treeHeight(tres[j].heap, tres[j].root)
         # treeHeight(tres[k].heap, tres[k].root)

====
